---- MODULE Spec2Model ----
(***************************************************************************)
(* Guided fast-marching depth inpainting (gdfmm.cc): GDFMM::InPaintBase    *)
(* with the bilateral predictor PredictDepth (InPaint) and the least-      *)
(* squares predictor PredictDepth2 (InPaint2).                             *)
(*                                                                         *)
(* Number representation.                                                  *)
(*  - A float depth is held in fixed point: the integer v stands for the   *)
(*    float v / DepthUnit.  16-bit input depths d become d * DepthUnit.    *)
(*  - A narrow-band priority is the exact rational -num/den, held as       *)
(*    <<num, den>> with den >= 1: a seed is <<0,1>> (0), ComputeSpeed is   *)
(*    <<1, 1+s>> (-1/(1+s)), and speed - 1 is <<num+den, den>>.            *)
(*  - A bilateral weight 2^-e is held in units of 2^-WeightBits, the       *)
(*    1e-6 floor of PredictDepth being one unit.  The exponential caches   *)
(*    are taken with sigma^2 = 1/(2 ln 2), so that E(k) = 2^-(k*k); they   *)
(*    return the binary exponent k*k and a product of cache values is the  *)
(*    sum of the exponents.                                                *)
(*  - The RGB image is blurred with blurSigma = 0 (a 1x1 kernel, the       *)
(*    identity) before the 3x3 Sobel with reflect-101 borders.             *)
(***************************************************************************)
EXTENDS Integers, Naturals, Sequences, FiniteSets, Bags, TLC

VARIABLES
  cols, rows,            \* depthImageOriginal.cols / .rows
  depthChannels,         \* depthImageOriginal.channels()
  depthImageOriginal,    \* the caller's depth image (16-bit values, 0 = unknown)
  rgbCols, rgbRows,      \* rgbImage.cols / .rows
  rgbChannels,           \* rgbImage.channels()
  rgbImage,              \* pixel -> <<r, g, b>>
  windowSize_,           \* GDFMM::windowSize_
  method,                \* "InPaint" (PredictDepth) or "InPaint2" (PredictDepth2)
  hasOutput,             \* output != nullptr, read when the loop has ended
  output,                \* content of *output as the caller sees it
  returned,              \* the cv::Mat the call returned, <<>> before
  depthImage,            \* the CV_32F working copy
  rgbGradientStrength,   \* pixel -> <<s_r, s_g, s_b>>
  narrowBand,            \* bag of [speed, position]
  top,                   \* the entry last popped: the locals speed, position
  written,               \* the writes to depthImage of the last iteration, in order
  pushed,                \* bag of the entries the last iteration emplaced
  enqueued,              \* pixels ever emplaced with a priority >= -1
  pc,                    \* "start", "loop", "done", "failed"
  error,                 \* which throw ended the call, "" if none
  call,                  \* 1 for the first call, 2 for a call on its result
  firstInput,            \* the depth image given to the first call
  firstReturned          \* what the first call returned

vars == <<cols, rows, depthChannels, depthImageOriginal, rgbCols, rgbRows,
          rgbChannels, rgbImage, windowSize_, method, hasOutput, output,
          returned, depthImage, rgbGradientStrength, narrowBand, top,
          written, pushed, enqueued, pc, error, call, firstInput,
          firstReturned>>

----------------------------------------------------------------------------
(* Bounds of the model *)

\* images of at most MaxPixels pixels are measured at any set of pixels
MaxPixels == 5
\* dense images: up to MaxArea pixels, all but MaxHoles or fewer measured
MaxArea == 6
MaxHoles == 2
\* Pop is not taken once the band holds more than cols*rows + MaxBacklog entries
MaxBacklog == 3
\* calls made in a row, each on the result of the one before
MaxCalls == 2
\* fixed-point resolution of a float depth
DepthUnit == 2

\* window sizes (odd, >= 3)
WindowSizes == {3, 5}

----------------------------------------------------------------------------
(* Helpers *)

Max(a, b) == IF a >= b THEN a ELSE b
Min(a, b) == IF a <= b THEN a ELSE b

RECURSIVE Pow2(_)
Pow2(n) == IF n <= 0 THEN 1 ELSE 2 * Pow2(n - 1)

RECURSIVE SumOver(_, _)
SumOver(S, f) ==
  IF S = {} THEN 0
  ELSE LET p == CHOOSE q \in S : TRUE IN f[p] + SumOver(S \ {p}, f)

Grid(c, r) == (0 .. c - 1) \X (0 .. r - 1)
Pixels == Grid(cols, rows)

----------------------------------------------------------------------------
(* Conversions of cv::Mat::convertTo *)

\* mutant: the depth is scaled down on conversion
\* (convertTo(depthImage, CV_32F, 1.0 / DepthUnit))
ToFloatScaled(d) == d

\* CV_16U -> CV_32F
ToFloat(d) == d * DepthUnit

\* cvRound: nearest integer, ties to even
RoundHalfEven(v) ==
  LET q == v \div DepthUnit
      r == v % DepthUnit
  IN  IF 2 * r < DepthUnit THEN q
      ELSE IF 2 * r > DepthUnit THEN q + 1
      ELSE IF q % 2 = 0 THEN q ELSE q + 1

\* CV_32F -> CV_16U: saturate_cast<ushort>
ToU16(v) == Max(0, Min(65535, RoundHalfEven(v)))

ConvertToFloat(img) == [p \in DOMAIN img |-> ToFloat(img[p])]
ConvertToU16(img) == [p \in DOMAIN img |-> ToU16(img[p])]

----------------------------------------------------------------------------
(* RGB gradient strength *)

\* cv::BORDER_REFLECT_101
Reflect101(i, n) ==
  IF n = 1 THEN 0
  ELSE IF i < 0 THEN -i
  ELSE IF i >= n THEN 2 * n - 2 - i
  ELSE i

At(img, c, r, x, y, ch) == img[<<Reflect101(x, c), Reflect101(y, r)>>][ch]

\* cv::Sobel(tmp, rgbGradientX, CV_32F, 1, 0, 3)
SobelX(img, c, r, x, y, ch) ==
    (At(img, c, r, x + 1, y - 1, ch) - At(img, c, r, x - 1, y - 1, ch))
  + 2 * (At(img, c, r, x + 1, y, ch) - At(img, c, r, x - 1, y, ch))
  + (At(img, c, r, x + 1, y + 1, ch) - At(img, c, r, x - 1, y + 1, ch))

\* cv::Sobel(tmp, rgbGradientY, CV_32F, 0, 1, 3)
SobelY(img, c, r, x, y, ch) ==
    (At(img, c, r, x - 1, y + 1, ch) - At(img, c, r, x - 1, y - 1, ch))
  + 2 * (At(img, c, r, x, y + 1, ch) - At(img, c, r, x, y - 1, ch))
  + (At(img, c, r, x + 1, y + 1, ch) - At(img, c, r, x + 1, y - 1, ch))

GradientStrength(img, c, r) ==
  [p \in Grid(c, r) |->
     [ch \in 1 .. 3 |->
        SobelX(img, c, r, p[1], p[2], ch) * SobelX(img, c, r, p[1], p[2], ch)
      + SobelY(img, c, r, p[1], p[2], ch) * SobelY(img, c, r, p[1], p[2], ch)]]

\* mutant: the minus sign is left out (1.0f / (1 + ...))
ComputeSpeedPositive(gradientStrength, position) ==
  <<-1, 1 + gradientStrength[position][1]
          + gradientStrength[position][2]
          + gradientStrength[position][3]>>

\* mutant: the 1 of the denominator is left out
ComputeSpeedNoOne(gradientStrength, position) ==
  <<1, gradientStrength[position][1]
       + gradientStrength[position][2]
       + gradientStrength[position][3]>>

\* -1.0f / (1 + s_r + s_g + s_b), as <<num, den>>
ComputeSpeed(gradientStrength, position) ==
  <<1, 1 + gradientStrength[position][1]
         + gradientStrength[position][2]
         + gradientStrength[position][3]>>

----------------------------------------------------------------------------
(* Priorities *)

SeedSpeed == <<0, 1>>

\* a < b on the floats -a[1]/a[2], -b[1]/b[2]
\* mutant: the comparator is reversed (p1.first > p2.first)
SpeedGreater(a, b) == a[1] * b[2] < b[1] * a[2]

SpeedLess(a, b) == a[1] * b[2] > b[1] * a[2]

\* speed < -20
RetryLimit == 20

\* mutant: speed < -21
BelowRetryLimitLate(s) == s[1] > (RetryLimit + 1) * s[2]

\* mutant: speed <= -20
BelowRetryLimitInclusive(s) == s[1] >= RetryLimit * s[2]

BelowRetryLimit(s) == s[1] > RetryLimit * s[2]

\* mutant: the parent is re-tried at its old priority
DeferredSame(s) == s

\* speed - 1
Deferred(s) == <<s[1] + s[2], s[2]>>

\* the comparator of the priority queue: the entries top() may return
\* mutant: any entry may be taken, not the greatest
TopEntriesAny(band) == BagToSet(band)

TopEntries(band) ==
  {e \in BagToSet(band) :
     \A f \in BagToSet(band) : ~SpeedLess(e.speed, f.speed)}

Emplace(band, s, p) == band (+) SetToBag({[speed |-> s, position |-> p]})

----------------------------------------------------------------------------
(* The bilateral predictor *)

\* ExpCache::operator(): exp(-k^2 / (2 sigma^2)) = 2^-(k*k), as the exponent
ExpCache(k) == k * k

\* 2^-WeightBits is the unit of a weight; 1e-6 is one unit
WeightBits == 20

\* the product of the five cache values, as the exponent of 2^-e
BilateralWeight(p1, p2, rgb) ==
    ExpCache(p2[1] - p1[1])
  + ExpCache(p2[2] - p1[2])
  + ExpCache(rgb[p1][1] - rgb[p2][1])
  + ExpCache(rgb[p1][2] - rgb[p2][2])
  + ExpCache(rgb[p1][3] - rgb[p2][3])

PowersOfTwo == [n \in 0 .. WeightBits |-> Pow2(n)]

\* std::max((float)1e-6, 2^-e) in weight units
FlooredWeight(e) == Max(1, IF e > WeightBits THEN 0 ELSE PowersOfTwo[WeightBits - e])

\* the clipped window around (x, y)
Window(x, y) ==
  LET windowRadius == windowSize_ \div 2
  IN  (Max(0, x - windowRadius) .. Min(cols - 1, x + windowRadius))
      \X (Max(0, y - windowRadius) .. Min(rows - 1, y + windowRadius))

KnownInWindow(img, x, y) == {p \in Window(x, y) : img[p] # 0}

\* float division, rounded to the nearest representable depth
FloatDiv(a, b) == (a + b \div 2) \div b

\* mutant: the sum is divided by the number of known pixels
WeightedMeanByCount(img, rgb, x, y) ==
  LET known == KnownInWindow(img, x, y)
      weight == [p \in known |-> FlooredWeight(BilateralWeight(<<x, y>>, p, rgb))]
      sumValues == SumOver(known, [p \in known |-> weight[p] * img[p]])
  IN  FloatDiv(sumValues, Cardinality(known))

\* the weighted mean of the known pixels of the window, whatever their number
WeightedMean(img, rgb, x, y) ==
  LET known == KnownInWindow(img, x, y)
      weight == [p \in known |-> FlooredWeight(BilateralWeight(<<x, y>>, p, rgb))]
      sumValues == SumOver(known, [p \in known |-> weight[p] * img[p]])
      sumWeights == SumOver(known, weight)
  IN  FloatDiv(sumValues, sumWeights)

\* mutant: three known pixels are enough (count <= 2)
PredictDepthLoose(img, rgb, x, y) ==
  IF Cardinality(KnownInWindow(img, x, y)) <= 2 THEN 0
  ELSE WeightedMean(img, rgb, x, y)

\* mutant: five known pixels are needed (count <= 4)
PredictDepthStrict(img, rgb, x, y) ==
  IF Cardinality(KnownInWindow(img, x, y)) <= 4 THEN 0
  ELSE WeightedMean(img, rgb, x, y)

PredictDepth(img, rgb, x, y) ==
  LET count == Cardinality(KnownInWindow(img, x, y))
  IN  IF count <= 3 THEN 0 ELSE WeightedMean(img, rgb, x, y)

----------------------------------------------------------------------------
(* The least-squares predictor *)

\* The floats beta.dot(test) + mY can be: the ridge solve is not computed;
\* it may extrapolate below zero or give a positive depth.
Predict2Values == {-1, DepthUnit + 1}

\* num_known <= 3 returns 0; otherwise the solve's value, here `solved`
PredictDepth2(img, x, y, solved) ==
  LET num_known == Cardinality(KnownInWindow(img, x, y))
  IN  IF num_known <= 3 THEN 0 ELSE solved

----------------------------------------------------------------------------
(* The propagation loop *)

\* const Point neighbours[] {{0,1},{1,0},{-1,0},{0,-1}}
neighbours == << <<0, 1>>, <<1, 0>>, <<-1, 0>>, <<0, -1>> >>

InBounds(p) == p[1] >= 0 /\ p[2] >= 0 /\ p[1] < cols /\ p[2] < rows

\* the PredictMethod lambda of InPaint / InPaint2
predict(img, rgb, x, y, solved) ==
  IF method = "InPaint" THEN PredictDepth(img, rgb, x, y)
  ELSE PredictDepth2(img, x, y, solved)

\* mutant: a known neighbour is predicted again
NeedsFillAlways(img, neighbour) == TRUE

\* the neighbour is visited only if it is unknown
NeedsFill(img, neighbour) == img[neighbour] = 0

\* mutant: a failed prediction is not re-tried
RetryDropped(st, e) == st

\* mutant: the parent is re-tried however low its priority
RetryNoThrow(st, e) ==
  [st EXCEPT !.band = Emplace(@, Deferred(e.speed), e.position)]

\* prediction == 0: throw if speed < -20, else re-try the parent later
Retry(st, e) ==
  IF BelowRetryLimit(e.speed) THEN [st EXCEPT !.thrown = TRUE]
  ELSE [st EXCEPT !.band = Emplace(@, Deferred(e.speed), e.position)]

\* the body of `for (const Point &d: neighbours)` for the popped entry e;
\* st = [img, band, thrown, log] is the state of the iteration so far, log
\* being the writes made to depthImage
Visit(st, e, d, solved) ==
  LET neighbour == <<e.position[1] + d[1], e.position[2] + d[2]>>
  IN  IF st.thrown \/ ~InBounds(neighbour) THEN st
      ELSE IF ~NeedsFill(st.img, neighbour) THEN st
      ELSE LET prediction ==
                 predict(st.img, rgbImage, neighbour[1], neighbour[2], solved)
               wrote == [st EXCEPT !.img[neighbour] = prediction,
                                   !.log = Append(@, [position |-> neighbour,
                                                      was |-> st.img[neighbour],
                                                      value |-> prediction])]
           IN  IF prediction # 0
               THEN [wrote EXCEPT !.band =
                       Emplace(@, ComputeSpeed(rgbGradientStrength, neighbour),
                               neighbour)]
               ELSE Retry(wrote, e)

\* one iteration of `while (narrowBand.size() > 0)` after top() / pop()
Iterate(img, band, e, solved) ==
  LET s0 == [img |-> img, band |-> band, thrown |-> FALSE, log |-> <<>>]
      s1 == Visit(s0, e, neighbours[1], solved[1])
      s2 == Visit(s1, e, neighbours[2], solved[2])
      s3 == Visit(s2, e, neighbours[3], solved[3])
  IN  Visit(s3, e, neighbours[4], solved[4])

\* what the least-squares solves of one iteration on entry e may return,
\* one per neighbour that is visited (0 where no solve is made)
Solves(img, e) ==
  {f \in [1 .. 4 -> Predict2Values \cup {0}] :
     \A i \in 1 .. 4 :
       LET neighbour == <<e.position[1] + neighbours[i][1],
                          e.position[2] + neighbours[i][2]>>
       IN  f[i] # 0 <=> /\ method = "InPaint2"
                        /\ InBounds(neighbour)
                        /\ NeedsFill(img, neighbour)}

\* mutant: every pixel is enqueued, known or not
SeedsAll(img) ==
  SetToBag({[speed |-> SeedSpeed, position |-> p] : p \in DOMAIN img})

\* mutant: the unknown pixels are enqueued
SeedsInverted(img) ==
  SetToBag({[speed |-> SeedSpeed, position |-> p] : p \in {q \in DOMAIN img : img[q] = 0}})

Seeds(img) ==
  SetToBag({[speed |-> SeedSpeed, position |-> p] : p \in {q \in DOMAIN img : img[q] # 0}})

----------------------------------------------------------------------------
(* Inputs *)

Grey(l) == <<l, l, l>>
Uniform(c, r) == [p \in Grid(c, r) |-> Grey(0)]
\* left half black, right half one grey level up
Split(c, r) == [p \in Grid(c, r) |-> IF 2 * p[1] >= c THEN Grey(1) ELSE Grey(0)]
RgbImages(c, r) == {Uniform(c, r), Split(c, r)}
\* a smooth shading, darker towards the origin
Shaded(c, r) == [p \in Grid(c, r) |-> Grey(p[1] * p[1] + 4 * p[2] * p[2])]

\* the scene's depth, chequered between a near and a far level
Scene(c, r) == [p \in Grid(c, r) |-> IF (p[1] + p[2]) % 2 = 0 THEN 1 ELSE 300]

\* the depth image that measures `scene` at the pixels of `known`
Measured(scene, known) ==
  [p \in DOMAIN scene |-> IF p \in known THEN scene[p] ELSE 0]

Shapes(area) == {s \in (1 .. area) \X (1 .. area) : s[1] * s[2] <= area}

\* the sets of measured pixels of a c x r image with at most `holes` unknown
Masks(c, r, holes) ==
  {known \in SUBSET Grid(c, r) : Cardinality(Grid(c, r) \ known) <= holes}

Unset ==
  /\ depthImage = <<>>
  /\ rgbGradientStrength = <<>>
  /\ narrowBand = EmptyBag
  /\ top = <<>>
  /\ written = <<>>
  /\ pushed = EmptyBag
  /\ enqueued = {}
  /\ returned = <<>>
  /\ output = <<>>
  /\ hasOutput = FALSE
  /\ error = ""
  /\ pc = "start"
  /\ call = 1
  /\ firstReturned = <<>>
  /\ firstInput = depthImageOriginal

\* images of matching size and channel counts, of at most `area` pixels
\* of which at most `holes` are unknown
WellFormed(area, holes) ==
  \E s \in Shapes(area) :
    /\ cols = s[1] /\ rows = s[2]
    /\ rgbCols = s[1] /\ rgbRows = s[2]
    /\ depthChannels = 1 /\ rgbChannels = 3
    /\ \E known \in Masks(s[1], s[2], holes) :
         depthImageOriginal = Measured(Scene(s[1], s[2]), known)
    /\ rgbImage \in RgbImages(s[1], s[2])

\* a shape mismatch or a channel mismatch
IllFormed ==
  /\ cols = 2 /\ rows = 1
  /\ depthImageOriginal = Measured(Scene(2, 1), {<<0, 0>>})
  /\ \E m \in {<<3, 1, 1, 3>>, <<2, 2, 1, 3>>, <<2, 1, 3, 3>>, <<2, 1, 1, 1>>,
               <<3, 1, 3, 1>>} :
       /\ rgbCols = m[1] /\ rgbRows = m[2]
       /\ depthChannels = m[3] /\ rgbChannels = m[4]
       /\ rgbImage = Uniform(m[1], m[2])

Init ==
  /\ WellFormed(MaxPixels, MaxPixels) \/ IllFormed
  /\ method \in {"InPaint", "InPaint2"}
  /\ windowSize_ \in WindowSizes
  /\ Unset

\* dense images, in-painted with the bilateral predictor
InitDense ==
  /\ WellFormed(MaxArea, MaxHoles) \/ IllFormed
  /\ method = "InPaint"
  /\ windowSize_ \in WindowSizes
  /\ Unset

----------------------------------------------------------------------------
(* Actions *)

inputs == <<cols, rows, depthChannels, rgbCols, rgbRows, rgbChannels,
            rgbImage, windowSize_, method>>

\* the pixels that the entries of `band` with priority >= -1 stand for
EnqueuedBy(band) ==
  {f.position : f \in {g \in BagToSet(band) : ~SpeedLess(g.speed, <<1, 1>>)}}

\* InPaintBase up to the propagation loop: the checks, the conversion to
\* CV_32F, the gradient strength, the seeds
Begin ==
  /\ pc = "start"
  /\ IF rgbCols # cols \/ rgbRows # rows
     THEN /\ pc' = "failed" /\ error' = "Images must have same size."
          /\ UNCHANGED <<depthImage, rgbGradientStrength, narrowBand, enqueued>>
     ELSE IF depthChannels # 1 \/ rgbChannels # 3
     THEN /\ pc' = "failed" /\ error' = "Failed expression"
          /\ UNCHANGED <<depthImage, rgbGradientStrength, narrowBand, enqueued>>
     ELSE /\ depthImage' = ConvertToFloat(depthImageOriginal)
          /\ rgbGradientStrength' = GradientStrength(rgbImage, rgbCols, rgbRows)
          /\ narrowBand' = Seeds(depthImage')
          /\ enqueued' = EnqueuedBy(narrowBand')
          /\ pc' = "loop" /\ error' = ""
  /\ UNCHANGED <<inputs, depthImageOriginal, hasOutput, output, returned,
                 top, written, pushed, call, firstInput, firstReturned>>

\* mutant: the loop works on the caller's output image
OutputShared(out, img) == ConvertToU16(img)

\* *output during the loop: the loop writes the working copy only
OutputInLoop(out, img) == out

\* the band may not outgrow the model
WithinBacklog == BagCardinality(narrowBand) <= cols * rows + MaxBacklog

TooFew == "Too few known values."

\* one iteration of the propagation loop
Pop ==
  /\ pc = "loop"
  /\ narrowBand # EmptyBag
  /\ WithinBacklog
  /\ \E e \in TopEntries(narrowBand) :
     \E solved \in Solves(depthImage, e) :
       LET rest == narrowBand (-) SetToBag({e})
           st == Iterate(depthImage, rest, e, solved)
       IN  /\ top' = <<e>>
           /\ depthImage' = st.img
           /\ narrowBand' = st.band
           /\ written' = st.log
           /\ pushed' = st.band (-) rest
           /\ enqueued' = enqueued \cup EnqueuedBy(pushed')
           /\ IF st.thrown
              THEN pc' = "failed" /\ error' = TooFew
              ELSE pc' = "loop" /\ error' = ""
  /\ output' = OutputInLoop(output, depthImage')
  /\ UNCHANGED <<inputs, depthImageOriginal, rgbGradientStrength, hasOutput,
                 returned, call, firstInput, firstReturned>>

\* the loop has ended: convert to CV_16U into *output, or in place
Return ==
  /\ pc = "loop"
  /\ narrowBand = EmptyBag
  /\ hasOutput' \in BOOLEAN
  /\ returned' = ConvertToU16(depthImage)
  /\ output' = IF hasOutput' THEN ConvertToU16(depthImage) ELSE output
  /\ pc' = "done"
  /\ UNCHANGED <<inputs, depthImageOriginal, depthImage, rgbGradientStrength,
                 narrowBand, top, written, pushed, enqueued, error, call,
                 firstInput, firstReturned>>

\* the caller in-paints the image it got back, with the same RGB image
InPaintAgain ==
  /\ pc = "done"
  /\ call < MaxCalls
  /\ call' = call + 1
  /\ depthImageOriginal' = returned
  /\ firstReturned' = IF call = 1 THEN returned ELSE firstReturned
  /\ depthImage' = <<>>
  /\ rgbGradientStrength' = <<>>
  /\ top' = <<>>
  /\ written' = <<>>
  /\ pushed' = EmptyBag
  /\ enqueued' = {}
  /\ returned' = <<>>
  /\ pc' = "start"
  /\ UNCHANGED <<inputs, hasOutput, output, narrowBand, error, firstInput>>

Next == Begin \/ Pop \/ Return

Spec == Init /\ [][Next]_vars

\* two calls in a row
NextTwice == Begin \/ Pop \/ Return \/ InPaintAgain

InitTwice == Init /\ method = "InPaint"
SpecTwice == InitTwice /\ [][NextTwice]_vars

SpecDense == InitDense /\ [][Next]_vars

\* InPaint on the images with at most MaxHoles unknown pixels; the loop of
\* InPaintBase is sequential code that always takes its next step
InitSparse ==
  /\ WellFormed(MaxPixels, MaxHoles)
  /\ method = "InPaint"
  /\ windowSize_ \in WindowSizes
  /\ Unset
SpecFair == InitSparse /\ [][Next]_vars /\ WF_vars(Next)

\* scenarios S1 and S2: a 3x3 image, flat at depth 100 or chequered, with no
\* unknown pixel or with one: the centre, the middle of an edge, or a corner
FlatShape == <<3, 3>>
FlatHoles == {{}, {<<1, 1>>}, {<<1, 0>>}, {<<0, 0>>}}
FlatDepth == 100
Flat(c, r) == [p \in Grid(c, r) |-> FlatDepth]

InitFlat ==
  /\ cols = FlatShape[1] /\ rows = FlatShape[2]
  /\ rgbCols = FlatShape[1] /\ rgbRows = FlatShape[2]
  /\ depthChannels = 1 /\ rgbChannels = 3
  /\ \E scene \in {Flat(FlatShape[1], FlatShape[2]), Scene(FlatShape[1], FlatShape[2])} :
     \E holes \in FlatHoles :
       depthImageOriginal =
         Measured(scene, Grid(FlatShape[1], FlatShape[2]) \ holes)
  /\ rgbImage \in RgbImages(FlatShape[1], FlatShape[2])
  /\ method = "InPaint"
  /\ windowSize_ \in WindowSizes
  /\ Unset
SpecFlat == InitFlat /\ [][Next]_vars

\* scenario S4: a 5x5 image of which exactly the four corners are known
S4Shape == <<5, 5>>
S4Side == S4Shape[1]
S4Windows == {3, 5, 7, 9}
S4Corners == {<<0, 0>>, <<S4Side - 1, 0>>, <<0, S4Side - 1>>,
              <<S4Side - 1, S4Side - 1>>}

InitS4 ==
  /\ cols = S4Side /\ rows = S4Side
  /\ rgbCols = S4Side /\ rgbRows = S4Side
  /\ depthChannels = 1 /\ rgbChannels = 3
  /\ depthImageOriginal = Measured(Scene(S4Side, S4Side), S4Corners)
  /\ rgbImage = Shaded(S4Side, S4Side)
  /\ method = "InPaint"
  /\ windowSize_ \in S4Windows
  /\ Unset

SpecS4 == InitS4 /\ [][Next]_vars

----------------------------------------------------------------------------
(* State functions used by the properties *)

Known(img) == {p \in DOMAIN img : img[p] # 0}
Unknown(img) == {p \in DOMAIN img : img[p] = 0}

Adjacent(p, q) ==
  \E i \in 1 .. 4 : q = <<p[1] + neighbours[i][1], p[2] + neighbours[i][2]>>

\* the pixels 4-connected to a pixel of S
RECURSIVE Reach(_)
Reach(S) ==
  LET N == S \cup {q \in Pixels : \E p \in S : Adjacent(p, q)}
  IN  IF N = S THEN S ELSE Reach(N)

\* sizes and channel counts pass the checks of InPaintBase
Aligned ==
  /\ rgbCols = cols /\ rgbRows = rows
  /\ depthChannels = 1 /\ rgbChannels = 3

\* at least one known pixel, every unknown pixel 4-connected to a known one
WellCovered ==
  /\ Known(depthImageOriginal) # {}
  /\ Reach(Known(depthImageOriginal)) = Pixels

\* the call has a working copy
Working == pc \in {"loop", "done", "failed"} /\ DOMAIN depthImage # {}

\* the pixels the call has filled so far
Filled == Unknown(depthImageOriginal) \cap Known(depthImage)

IsSeed(e) == depthImageOriginal[e.position] # 0

\* how often in a row the entry's pixel has been deferred: a seed starts at
\* 0 and a filled pixel at -1/den, and each deferral subtracts 1
Deferrals(e) ==
  IF IsSeed(e) THEN e.speed[1] \div e.speed[2]
  ELSE (e.speed[1] - 1) \div e.speed[2]

Aborted == pc = "failed" /\ error = TooFew

----------------------------------------------------------------------------
(* C1 *)

\* C1 as claimed: on an input with a known pixel to which every unknown
\* pixel is 4-connected, InPaint does not abort and returns no unknown pixel.
C1_AlwaysFills ==
  (Aligned /\ method = "InPaint" /\ WellCovered)
    => /\ pc # "failed"
       /\ pc = "done" => Unknown(returned) = {}

\* C1 amended: on such an input InPaint either aborts with "Too few known
\* values" or leaves the loop with every pixel filled and returns an image
\* with no unknown pixel.
C1_FillsOrAborts ==
  (Aligned /\ method = "InPaint" /\ WellCovered)
    => /\ pc = "failed" => error = TooFew
       /\ (pc = "loop" /\ narrowBand = EmptyBag) => Unknown(depthImage) = {}
       /\ pc = "done" => Unknown(depthImage) = {} /\ Unknown(returned) = {}

C1_Witness ==
  /\ method = "InPaint" /\ WellCovered
  /\ pc = "done" /\ Filled # {} /\ Unknown(returned) = {}

----------------------------------------------------------------------------
(* C2 *)

\* C2: a pixel known in the input keeps its depth in the working copy in
\* every state of the propagation, and in the returned image, with either
\* predictor and in whatever order the band is popped.
C2_KnownPreserved ==
  \A p \in Known(depthImageOriginal) :
    /\ Working => depthImage[p] = ToFloat(depthImageOriginal[p])
    /\ pc = "done" => returned[p] = depthImageOriginal[p]

C2_Witness ==
  /\ pc = "done" /\ method = "InPaint2" /\ Filled # {}
  /\ \E p \in Known(depthImageOriginal) : returned[p] > 255

----------------------------------------------------------------------------
(* C3 *)

\* C3 as claimed: an image returned normally holds no pixel equal to 0,
\* whatever the input.
C3_NoZeroReturned == pc = "done" => Unknown(returned) = {}

\* C3 amended: an image InPaint returns normally holds no pixel equal to 0
\* if the input has a known pixel; an input without one is returned as it is.
C3_NoZeroIfSeeded ==
  (pc = "done" /\ method = "InPaint")
    => IF Known(depthImageOriginal) # {} THEN Unknown(returned) = {}
       ELSE returned = depthImageOriginal

C3_Witness ==
  /\ pc = "done" /\ method = "InPaint"
  /\ Known(depthImageOriginal) # {} /\ Unknown(depthImageOriginal) # {}
  /\ Unknown(returned) = {}

----------------------------------------------------------------------------
(* C4 *)

\* the band after the step is the band before it with one entry taken out
\* and only entries of strictly lower priority put in
BandDecreases ==
  \E e \in BagToSet(narrowBand) :
    LET rest == narrowBand (-) SetToBag({e})
    IN  /\ rest \sqsubseteq narrowBand'
        /\ \A f \in BagToSet(narrowBand' (-) rest) : SpeedLess(f.speed, e.speed)

\* no priority is below -(RetryLimit + 2)
BandBounded ==
  \A f \in BagToSet(narrowBand) : f.speed[1] <= (RetryLimit + 2) * f.speed[2]

\* the call has returned or thrown
Ended == pc \in {"done", "failed"}

----------------------------------------------------------------------------
(* C5 *)

\* a known pixel, an unknown pixel next to a known one, and no unknown
\* pixel with four known pixels in its window
Starved ==
  /\ Aligned
  /\ Known(depthImageOriginal) # {}
  /\ \E p \in Known(depthImageOriginal), q \in Unknown(depthImageOriginal) :
       Adjacent(p, q)
  /\ \A q \in Unknown(depthImageOriginal) :
       Cardinality(KnownInWindow(depthImageOriginal, q[1], q[2])) <= 3

\* C5: on a starved input no pixel is ever filled, the loop never runs out
\* of entries, and the call does not return: it can only end in the
\* "Too few known values" abort.
C5_StarvedAborts ==
  Starved
    => /\ pc # "done"
       /\ Working => depthImage = ConvertToFloat(depthImageOriginal)
       /\ pc = "loop" => narrowBand # EmptyBag
       /\ pc = "failed" => error = TooFew

C5_Witness == Starved /\ Aborted /\ Filled = {}

----------------------------------------------------------------------------
(* C6 *)

----------------------------------------------------------------------------
(* C7 *)

\* C7: when the call has thrown, nothing has been returned, and the caller's
\* output image and input depth image are as they were before the call,
\* also when the working copy had pixels filled before the abort.
C7_NoPartialOutput ==
  pc = "failed"
    => /\ returned = <<>>
       /\ output = <<>>
       /\ depthImageOriginal = firstInput

C7_Witness == Aborted /\ Filled # {}

----------------------------------------------------------------------------
(* C8 *)

\* C8: InPaint on the image InPaint returned gives that image again; the
\* second call fills no pixel and does not abort.
C8_Idempotent ==
  call = 2
    => /\ pc # "failed"
       /\ Working => depthImage = ConvertToFloat(depthImageOriginal)
       /\ pc = "done" => returned = firstReturned

\* the first call filled a pixel and the second has returned
C8_Witness ==
  /\ call = 2 /\ pc = "done"
  /\ firstReturned # firstInput
  /\ Known(firstInput) # {}

----------------------------------------------------------------------------
(* C9 *)

SpeedOf(p) == ComputeSpeed(rgbGradientStrength, p)

\* C9 as claimed: -1 < speed(G, P) < 0 for every pixel.
C9_SpeedInOpenInterval ==
  pc = "loop"
    => \A p \in Pixels :
         SpeedLess(<<1, 1>>, SpeedOf(p)) /\ SpeedLess(SpeedOf(p), SeedSpeed)

\* C9 amended: every gradient strength is >= 0 and -1 <= speed(G, P) < 0;
\* the speed is -1 where the gradient strength is zero.
C9_SpeedInHalfOpenInterval ==
  pc = "loop"
    => \A p \in Pixels :
         /\ \A ch \in 1 .. 3 : rgbGradientStrength[p][ch] >= 0
         /\ ~SpeedLess(SpeedOf(p), <<1, 1>>)
         /\ SpeedLess(SpeedOf(p), SeedSpeed)
         /\ (SpeedOf(p) = <<1, 1>>
               <=> \A ch \in 1 .. 3 : rgbGradientStrength[p][ch] = 0)

\* an image with a pixel of speed -1 and a pixel of speed above -1
C9_Witness ==
  /\ pc = "loop"
  /\ \E p, q \in Pixels : SpeedOf(p) = <<1, 1>> /\ SpeedLess(SpeedOf(p), SpeedOf(q))

----------------------------------------------------------------------------
(* C10 *)

\* C10 as claimed: scenario S4 never aborts, defers no parent more than
\* twice in a row, and returns no unknown pixel, whatever the window size.
C10_S4Succeeds ==
  /\ pc # "failed"
  /\ \A e \in BagToSet(narrowBand) : Deferrals(e) <= 2
  /\ pc = "done" => Unknown(returned) = {}

\* C10 amended: with a window of 9 or more, which holds the four corners
\* wherever it is centred, S4 defers nothing, does not abort and returns no
\* unknown pixel; with a window of 3, 5 or 7 no window holds four known
\* pixels, no pixel is ever filled and the call does not return.
C10_S4ByWindow ==
  IF windowSize_ >= 2 * S4Side - 1
  THEN /\ pc # "failed"
       /\ \A e \in BagToSet(narrowBand) : Deferrals(e) = 0
       /\ pc = "done" => Unknown(returned) = {}
  ELSE /\ pc # "done"
       /\ Working => depthImage = ConvertToFloat(depthImageOriginal)
       /\ pc = "loop" => narrowBand # EmptyBag

C10_Witness ==
  /\ windowSize_ = 2 * S4Side - 1
  /\ pc = "done" /\ Cardinality(Filled) = S4Side * S4Side - 4

----------------------------------------------------------------------------
(* C11 *)

MinOf(S) == CHOOSE v \in S : \A w \in S : v <= w
MaxOf(S) == CHOOSE v \in S : \A w \in S : v >= w

\* the depths PredictDepth reads in the window around q
WindowDepths(q) == {depthImage[p] : p \in KnownInWindow(depthImage, q[1], q[2])}

\* C11: on every image the propagation reaches and for every unknown pixel
\* q (the pixels the loop predicts), PredictDepth returns 0 exactly when the
\* clipped window holds fewer than
\* 4 known pixels; otherwise every weight is positive and the value lies
\* between the least and the greatest known depth of the window, so it is
\* not 0 and it is v when all known depths are v.  Every value the loop has
\* written is such a value, and a flat image is filled with its own depth.
C11_PredictDepth ==
  (Working /\ method = "InPaint")
    => /\ \A q \in Unknown(depthImage) :
            LET known == KnownInWindow(depthImage, q[1], q[2])
                prediction == PredictDepth(depthImage, rgbImage, q[1], q[2])
            IN  /\ prediction = 0 <=> Cardinality(known) < 4
                /\ Cardinality(known) >= 4
                     => /\ \A p \in known :
                             FlooredWeight(BilateralWeight(q, p, rgbImage)) > 0
                        /\ MinOf(WindowDepths(q)) <= prediction
                        /\ prediction <= MaxOf(WindowDepths(q))
                        /\ prediction # 0
                        /\ \A v \in WindowDepths(q) :
                             WindowDepths(q) = {v} => prediction = v
       /\ \A i \in DOMAIN written :
            written[i].value = 0
              \/ /\ written[i].value >= MinOf({depthImage[p] : p \in Known(depthImage)})
                 /\ written[i].value <= MaxOf({depthImage[p] : p \in Known(depthImage)})
       /\ (\A p \in Known(depthImageOriginal) : depthImageOriginal[p] = FlatDepth)
            => \A p \in Known(depthImage) : depthImage[p] = ToFloat(FlatDepth)

\* scenario S2: the single hole in the 3x3 image of 100s is filled with 100
C11_Witness ==
  /\ pc = "done"
  /\ Unknown(depthImageOriginal) = {<<1, 1>>}
  /\ \A p \in Known(depthImageOriginal) : depthImageOriginal[p] = FlatDepth
  /\ windowSize_ = 3
  /\ rgbImage = Uniform(cols, rows)
  /\ returned[<<1, 1>>] = FlatDepth

----------------------------------------------------------------------------
(* C12 *)

\* C12: between iterations of the loop, and when it has ended, the pixels
\* ever emplaced with a priority >= -1 are the pixels whose depth is not 0,
\* and no entry of the band, of whatever priority, stands for an unknown pixel.
C12_EnqueuedAreKnown ==
  Working
    => /\ enqueued = Known(depthImage)
       /\ \A f \in BagToSet(narrowBand) : depthImage[f.position] # 0

\* a pixel has been filled by the least-squares predictor and is in the band
C12_Witness ==
  /\ pc = "loop" /\ method = "InPaint2"
  /\ \E f \in BagToSet(narrowBand) : f.position \in Filled
  /\ enqueued = Known(depthImage)
  /\ enqueued # Known(depthImageOriginal)

----------------------------------------------------------------------------
(* C13 *)

\* C13: every write of an iteration is made to a pixel that holds 0 at that
\* moment, no pixel is written twice in one iteration, and from one
\* iteration to the next a pixel that holds a non-zero depth keeps it: a
\* pixel is filled once, whichever of its parents reaches it first.
C13_WriteOnceToUnknown ==
  /\ [](\A i \in DOMAIN written :
          /\ written[i].was = 0
          /\ \A j \in DOMAIN written :
               written[j].position = written[i].position => j = i)
  /\ [][pc = "loop"
          => \A p \in Pixels :
               /\ depthImage[p] # 0 => depthImage'[p] = depthImage[p]
               /\ depthImage'[p] # depthImage[p]
                    => \E i \in DOMAIN written' :
                         /\ written'[i].position = p
                         /\ written'[i].value = depthImage'[p]]_vars

\* a second parent of a filled pixel has been popped and has written nothing
C13_Witness ==
  /\ pc = "loop"
  /\ top # <<>> /\ written = <<>>
  /\ \E p \in Filled : Adjacent(top[1].position, p) /\ IsSeed(top[1])
  /\ \A f \in BagToSet(narrowBand) : f.position # top[1].position

----------------------------------------------------------------------------
(* C14 *)

\* the band the last iteration popped its entry from
BandBefore == (narrowBand (-) pushed) (+) SetToBag({top[1]})

\* an entry pushed after a successful prediction for its pixel
Successful(f) ==
  ~IsSeed(f) /\ f.speed = ComputeSpeed(rgbGradientStrength, f.position)

\* an entry pushed by a deferral
IsDeferred(f) == Deferrals(f) >= 1

\* C14 as claimed: an iteration never pops a deferred entry from a band
\* that holds an entry pushed after a successful prediction.
C14_DeferredNeverBeforeSuccessful ==
  (Working /\ top # <<>> /\ IsDeferred(top[1]))
    => \A f \in BagToSet(BandBefore) : ~Successful(f)

\* C14 amended: an iteration never pops a deferred entry from a band that
\* holds a successful entry of higher priority; it pops one from a band that
\* holds successful entries only if the deferred entry is a seed deferred
\* once and those successful entries are of pixels of zero gradient, all at
\* priority -1, where the order of the heap decides.
C14_DeferredOnlyOnTie ==
  (Working /\ top # <<>> /\ IsDeferred(top[1]))
    => \A f \in BagToSet(BandBefore) :
         Successful(f)
           => /\ f.speed = <<1, 1>>
              /\ top[1].speed = <<1, 1>>
              /\ IsSeed(top[1])
              /\ \A ch \in 1 .. 3 : rgbGradientStrength[f.position][ch] = 0

\* a seed deferred once has been popped before a successful entry at -1
C14_Witness ==
  /\ Working /\ top # <<>> /\ IsDeferred(top[1])
  /\ \E f \in BagToSet(BandBefore) : Successful(f)

----------------------------------------------------------------------------
(* C15 *)

\* the writes of the last iteration that stored a failed prediction
FailedWrites == {i \in DOMAIN written : written[i].value = 0}

\* the entry a deferral of the last popped entry emplaces
Retried == [speed |-> Deferred(top[1].speed), position |-> top[1].position]

\* C15: when a prediction for an unknown neighbour N of the popped entry
\* (s, P) is 0, N stays 0 and is not emplaced; if s >= -20 the iteration
\* emplaces (s - 1, P), once per failed neighbour, and goes on; if s < -20
\* the first failure throws "Too few known values" and emplaces nothing.
\* Nothing else is emplaced but the neighbours that were filled, and the
\* call throws in the loop in no other case.
C15_DeferralStep ==
  (Working /\ top # <<>>)
    => /\ \A i \in FailedWrites :
            /\ depthImage[written[i].position] = 0
            /\ \A f \in BagToSet(pushed) : f.position # written[i].position
       /\ ~BelowRetryLimit(top[1].speed)
            => /\ pc # "failed"
               /\ CopiesIn(Retried, pushed) = Cardinality(FailedWrites)
       /\ (BelowRetryLimit(top[1].speed) /\ FailedWrites # {})
            => /\ Aborted
               /\ FailedWrites = {Len(written)}
               /\ CopiesIn(Retried, pushed) = 0
       /\ pc = "failed" => Aborted /\ FailedWrites # {}
       /\ BagCardinality(pushed)
            = Cardinality(DOMAIN written \ FailedWrites)
              + CopiesIn(Retried, pushed)
       /\ \A i \in DOMAIN written \ FailedWrites :
            CopiesIn([speed |-> ComputeSpeed(rgbGradientStrength, written[i].position),
                      position |-> written[i].position], pushed) = 1

\* a parent popped at priority exactly -20 has been deferred once more
C15_Witness ==
  /\ pc = "loop" /\ top # <<>>
  /\ top[1].speed = <<RetryLimit, 1>>
  /\ FailedWrites # {}
  /\ BagIn(Retried, narrowBand)

----------------------------------------------------------------------------
(* C16 *)

MinusOne == <<1, 1>>

\* priority in [-1, 0)
InFront(speed) == ~SpeedLess(speed, MinusOne) /\ SpeedLess(speed, SeedSpeed)

\* C16 as claimed: every entry pushed after a successful prediction has a
\* priority in [-1, 0) and every entry pushed by a deferral has a priority
\* strictly below -1.
C16_DeferredBelowMinusOne ==
  Working
    => \A f \in BagToSet(narrowBand) :
         /\ Successful(f) => InFront(f.speed)
         /\ IsDeferred(f) => SpeedLess(f.speed, MinusOne)

\* C16 amended: every entry pushed after a successful prediction has a
\* priority in [-1, 0); every entry pushed by a deferral has a priority of
\* at most -1, exactly 1 below that of the entry it replaces; it is -1 only
\* for a seed deferred once.  So a priority above -1 is that of a seed or a
\* normal-front entry and one below -1 that of a deferred retry, while -1
\* itself may be either.
C16_SignDiscipline ==
  Working
    => /\ \A f \in BagToSet(narrowBand) :
            /\ f.speed[2] >= 1
            /\ Successful(f) => InFront(f.speed)
            /\ IsDeferred(f) => ~SpeedLess(MinusOne, f.speed)
            /\ (IsDeferred(f) /\ f.speed = MinusOne) => IsSeed(f)
            /\ Successful(f) \/ IsDeferred(f) \/ (IsSeed(f) /\ f.speed = SeedSpeed)
            /\ ~(Successful(f) /\ IsDeferred(f))
            /\ SpeedLess(MinusOne, f.speed) => ~IsDeferred(f)
            /\ SpeedLess(f.speed, MinusOne) => IsDeferred(f)
       /\ top # <<>>
            => \A f \in BagToSet(pushed) :
                 f.position = top[1].position
                   => /\ f.speed = <<top[1].speed[1] + top[1].speed[2], top[1].speed[2]>>
                      /\ SpeedLess(f.speed, top[1].speed)
                      /\ ~SpeedLess(MinusOne, f.speed)

\* the band holds a seed deferred once and a filled pixel, both at -1
C16_Witness ==
  /\ pc = "loop"
  /\ \E f, g \in BagToSet(narrowBand) :
       /\ IsDeferred(f) /\ IsSeed(f) /\ f.speed = MinusOne
       /\ Successful(g) /\ g.speed = MinusOne

----------------------------------------------------------------------------
(* C17 *)

\* priority 0
ZeroPriority(f) == f.speed[1] = 0

\* C17: the loop starts with one entry of priority 0 for each known pixel
\* and nothing else; no iteration emplaces an entry of priority 0; and an
\* iteration pops an entry of another priority, that is one made during the
\* propagation, only from a band that holds no entry of priority 0.
C17_SeedsFirst ==
  Working
    => /\ (pc = "loop" /\ top = <<>>)
            => /\ BagToSet(narrowBand)
                    = {[speed |-> <<0, 1>>, position |-> p] :
                         p \in Known(depthImageOriginal)}
               /\ \A f \in BagToSet(narrowBand) : CopiesIn(f, narrowBand) = 1
       /\ \A f \in BagToSet(pushed) : ~ZeroPriority(f)
       /\ \A f \in BagToSet(narrowBand) :
            ZeroPriority(f) => IsSeed(f) /\ CopiesIn(f, narrowBand) = 1
       /\ (top # <<>> /\ ~ZeroPriority(top[1]))
            => \A f \in BagToSet(BandBefore) : ~ZeroPriority(f)

\* a filled pixel's entry has been popped, after every seed
C17_Witness ==
  /\ pc = "loop" /\ top # <<>>
  /\ ~IsSeed(top[1])
  /\ Cardinality(Known(depthImageOriginal)) >= 4

----------------------------------------------------------------------------
(* C18 *)

\* the known pixels that have an unknown 4-neighbour in the image
Frontier == {p \in Known(depthImage) : \E q \in Unknown(depthImage) : Adjacent(p, q)}

\* C18: between iterations of the loop every known pixel with an in-bounds
\* unknown 4-neighbour has an entry in the band; so when the band is empty
\* and the input had a known pixel, no pixel of the working image is
\* unknown, and none is when the call has returned.
C18_PendingFrontier ==
  /\ pc = "loop" => \A p \in Frontier : \E f \in BagToSet(narrowBand) : f.position = p
  /\ (pc \in {"loop", "done"} /\ narrowBand = EmptyBag
        /\ Known(depthImageOriginal) # {})
       => Unknown(depthImage) = {}

\* a frontier pixel is held in the band by its second deferral only
C18_Witness ==
  /\ pc = "loop"
  /\ \E p \in Frontier :
       /\ \E f \in BagToSet(narrowBand) : f.position = p
       /\ \A f \in BagToSet(narrowBand) : f.position = p => Deferrals(f) >= 2

----------------------------------------------------------------------------
(* C19 *)

\* priority in [-21, 0]
InRetryRange(speed) ==
  /\ speed[2] >= 1
  /\ speed[1] >= 0
  /\ speed[1] <= (RetryLimit + 1) * speed[2]

\* C19: every entry of the band, and every entry an iteration has emplaced,
\* has a priority in [-21, 0]; an iteration that popped an entry of priority
\* below -20 has not re-emplaced its parent.
C19_BoundedRetryDepth ==
  Working
    => /\ \A f \in BagToSet(narrowBand) : InRetryRange(f.speed)
       /\ \A f \in BagToSet(pushed) : InRetryRange(f.speed)
       /\ (top # <<>> /\ BelowRetryLimit(top[1].speed))
            => \A f \in BagToSet(pushed) : f.position # top[1].position

\* an entry of priority exactly -21 is in the band
C19_Witness ==
  /\ pc = "loop"
  /\ \E f \in BagToSet(narrowBand) : f.speed = <<RetryLimit + 1, 1>>

====
